---------------------------- MODULE Spec2Model ----------------------------
(***************************************************************************)
(* Translation job lifecycle of Easy-BabelDOC (src/backend/main.py).       *)
(*                                                                         *)
(* Python dicts are modelled as TLA+ functions whose DOMAIN is the set of  *)
(* keys present: d.update(u) is u @@ d, d.get(k, x) is Get(d, k, x) and    *)
(* "k in d" is k \in DOMAIN d.  The server runs on one asyncio event loop, *)
(* so every request handler without an await is one atomic action, and     *)
(* run_translation is cut at its two awaits: the pull of the next engine   *)
(* event and the send to the WebSocket.  The variable response holds what  *)
(* the step returned to its HTTP client, together with the request, and is *)
(* NoResponse after a step that answers no request.                        *)
(*                                                                         *)
(* Non-ASCII string literals of the source are transliterated:             *)
(*   "初始化" -> "init", "处理中" -> "processing", "完成" -> "done",       *)
(*   "未知错误" -> "unknown error".                                        *)
(* The immutable request parameters of a task (filename, source_lang,      *)
(* target_lang, model, config) and the engine metrics total_seconds and    *)
(* peak_memory_usage are copied through unchanged by the code and are left *)
(* out of the records.                                                     *)
(***************************************************************************)
EXTENDS Integers, Sequences, FiniteSets, TLC

\* ------------------------------------------------------------------ bounds
\* Longest engine event stream of one job (events before it ends or raises).
MaxEvents == 2

\* uuid4 task ids handed out by start_translation; each is used at most once.
TaskIds == {"t1", "t2"}

\* WebSocket connection objects; each connects at most once.
Sockets == {"wsA", "wsB"}

\* overall_progress values the engine reports.
ProgressValues == {70, 20}

\* ------------------------------------------------------- python primitives
None == "None"

Get(d, k, default) == IF k \in DOMAIN d THEN d[k] ELSE default

\* Values an engine result attribute can hold: a pathlib.Path or None.
PyPath(s) == [py |-> "Path", s |-> s]
PyNone == [py |-> "NoneType", s |-> ""]

\* bool(v): None and the empty string are falsy, a Path object is truthy.
Truthy(v) == v.py = "Path" \/ (v.py = "str" /\ v.s # "")

\* str(v) of a Path or str object.
PyStr(v) == v.s

\* getattr(obj, name, default): a plain dict has keys, not attributes.
GetAttr(obj, name, default) ==
    IF obj.shape = "object" /\ name \in DOMAIN obj THEN obj[name] ELSE default

\* str(e) of an exception: "" when raised without arguments.
ExcStr(args) == IF Len(args) = 0 THEN "" ELSE args[1]

\* ------------------------------------------------------------ file system
MonoPath(j) == "outputs/" \o j \o "/mono.pdf"
DualPath(j) == "outputs/" \o j \o "/dual.pdf"

\* ------------------------------------------------------------------ engine
ProgressEvents ==
    { [type |-> "progress_update", overall_progress |-> p,
       stage |-> "translating", message |-> "m"] : p \in ProgressValues }

\* translate_result is a TranslateResult object (real engine) or a plain
\* dict (MockHighLevel.async_translate).
FinishEvents(j) ==
    { [type |-> "finish",
       translate_result |-> [shape |-> sh, mono_pdf_path |-> m, dual_pdf_path |-> d]] :
        sh \in {"object", "dict"},
        m \in {PyNone, PyPath(MonoPath(j))},
        d \in {PyNone, PyPath(DualPath(j))} }

ErrorEvents == { [type |-> "error", error |-> "boom"], [type |-> "error"] }

OtherEvents == { [type |-> "other"] }

EngineEvents(j) == ProgressEvents \cup FinishEvents(j) \cup ErrorEvents \cup OtherEvents

\* Argument tuples of the exceptions the engine stream can raise.
EngineExceptions == { <<>>, <<"crash">> }

\* Files the real engine has written when it reports finish.
EngineWrites(event) ==
    IF event.type = "finish" /\ event.translate_result.shape = "object"
    THEN { PyStr(v) : v \in { w \in { event.translate_result.mono_pdf_path,
                                       event.translate_result.dual_pdf_path } : Truthy(w) } }
    ELSE {}

\* ----------------------------------------------------------------- state
VARIABLES
    active_translations,  \* task_id -> task dict (in-memory registry)
    connected_clients,    \* task_id -> WebSocket
    history_file,         \* translation_history.json
    files,                \* *.pdf files that exist under outputs/
    clock,                \* value of the next datetime.now()
    pc,                   \* position of each run_translation coroutine
    pulled,               \* number of events each coroutine has pulled
    last,                 \* what the last pull of each coroutine returned
    sending,              \* the send_text each coroutine is awaiting
    ws,                   \* state of each WebSocket connection
    log,                  \* side effects of each coroutine, in order
    response,             \* HTTP response of the request answered in the step
    written               \* finish event whose files each engine has written

vars == << active_translations, connected_clients, history_file, files, clock,
           pc, pulled, last, sending, ws, log, response, written >>

\* ---------------------------------------------------------- history store
MissingFile == [state |-> "missing", data |-> << >>]

\* load_history: [] when the file is absent or does not parse.
load_history(file) == IF file.state = "valid" THEN file.data ELSE << >>

\* What a write leaves behind: the write succeeds, open() fails (file
\* untouched), or open() has truncated the file and the dump fails.
WriteOutcomes == {"ok", "open_failed", "partial"}

save_history(file, history, outcome) ==
    CASE outcome = "ok" -> [state |-> "valid", data |-> history]
      [] outcome = "open_failed" -> file
      [] outcome = "partial" -> [state |-> "corrupt", data |-> << >>]

Matches(history, task_id) ==
    { i \in 1..Len(history) : Get(history[i], "task_id", None) = task_id }

Min(S) == CHOOSE x \in S : \A y \in S : x <= y

\* Mutant of add_to_history: the search for an existing entry is missing.
add_to_history_append(file, task_data, outcome) ==
    save_history(file, Append(load_history(file), task_data), outcome)

add_to_history(file, task_data, outcome) ==
    LET history == load_history(file)
        hits == Matches(history, Get(task_data, "task_id", None))
    IN IF hits # {}
       THEN save_history(file, [history EXCEPT ![Min(hits)] = task_data], outcome)
       ELSE save_history(file, Append(history, task_data), outcome)

\* ------------------------------------------------------------------- init
NoSend == [sink |-> "-", ev |-> 0]

\* A step that answers no HTTP request.  A response is kept together with
\* the request it answers: the task_ids of a delete, the flags of a cleanup.
NoResponse == [handler |-> "-"]

\* The engine of a task has not written its output files yet.
NotWritten == [type |-> "none"]

Init ==
    /\ active_translations = << >>
    /\ connected_clients = << >>
    /\ history_file = MissingFile
    /\ files = {}
    /\ clock = 1
    /\ pc = [j \in TaskIds |-> "unborn"]
    /\ pulled = [j \in TaskIds |-> 0]
    /\ last = [j \in TaskIds |-> [type |-> "none"]]
    /\ sending = [j \in TaskIds |-> NoSend]
    /\ ws = [s \in Sockets |-> [state |-> "fresh", task_id |-> "-"]]
    /\ log = [j \in TaskIds |-> << >>]
    /\ response = NoResponse
    /\ written = [j \in TaskIds |-> NotWritten]

\* ------------------------------------------------------- start_translation
start_translation(task_id, outcome) ==
    /\ pc[task_id] = "unborn"
    /\ LET task_data == [task_id |-> task_id, status |-> "running",
                         start_time |-> clock, progress |-> 0, stage |-> "init"]
       IN /\ active_translations' = (task_id :> task_data) @@ active_translations
          /\ history_file' = add_to_history(history_file, task_data, outcome)
    /\ clock' = clock + 1
    /\ pc' = [pc EXCEPT ![task_id] = "awaiting"]
    /\ response' = [handler |-> "start_translation", status |-> 200, task_id |-> task_id]
    /\ UNCHANGED << written, connected_clients, files, pulled, last, sending, ws, log >>

\* --------------------------------------------------------- run_translation
\* The dict update of the event's branch (lines 319-355); an event of any
\* other type leaves the task as it is.
ApplyEvent(task, event, now) ==
    CASE event.type = "progress_update" ->
            [progress |-> Get(event, "overall_progress", 0),
             stage |-> Get(event, "stage", "processing"),
             message |-> Get(event, "message", "")] @@ task
      [] event.type = "finish" ->
            LET result == event.translate_result
                mono_path == GetAttr(result, "mono_pdf_path", PyNone)
                dual_path == GetAttr(result, "dual_pdf_path", PyNone)
            IN [status |-> "completed",
                progress |-> 100,
                stage |-> "done",
                result |-> [mono_pdf_path |-> IF Truthy(mono_path) THEN PyStr(mono_path) ELSE None,
                            dual_pdf_path |-> IF Truthy(dual_path) THEN PyStr(dual_path) ELSE None],
                end_time |-> now] @@ task
      [] event.type = "error" ->
            [status |-> "error",
             error |-> Get(event, "error", "unknown error"),
             end_time |-> now] @@ task
      [] OTHER -> task

\* Mutant of Persisted: the finish branch does not call add_to_history.
PersistedNotFinish(event) == event.type \in {"progress_update", "error"}

\* The branches that end with add_to_history.
Persisted(event) == event.type \in {"progress_update", "finish", "error"}

\* The branches that read datetime.now().
ReadsClock(event) == event.type \in {"finish", "error"}

Effect(op, ev, to) == [op |-> op, ev |-> ev, to |-> to]

\* Side effects of the synchronous part of one loop iteration, in code order.
EventEffects(event, ev) ==
    IF Persisted(event)
    THEN << Effect("registry", ev, "-"), Effect("history", ev, "-") >>
    ELSE << >>

\* Mutant of PcAfterEvent: the send is scheduled and not awaited.
PcAfterEventNoAwait(task_id) == "awaiting"

\* Where the coroutine is after the synchronous part of an iteration: at
\* "await send_text" when the task has a client, else back at the pull.
PcAfterEvent(task_id) ==
    IF task_id \in DOMAIN connected_clients THEN "sending" ELSE "awaiting"

\* Mutant of on_send_error: the failure of the send reaches the except
\* clause of run_translation.
on_send_error_raise(task, now) == [status |-> "error", error |-> "send failed",
                                   end_time |-> now] @@ task

\* "except: pass" around send_text (lines 361-362): the task is left alone.
on_send_error(task, now) == task

\* json.dumps(event) raises TypeError on the TranslateResult object of the
\* real engine's finish event; every other event is dicts, strings and
\* numbers.
JsonSerialisable(event) ==
    ~ (event.type = "finish" /\ event.translate_result.shape = "object")

\* One iteration of "async for event in ..." up to the await of send_text
\* (lines 316-360).  The engine has written its output files before it
\* yields finish, in an earlier step (engine_write) or else in this one.
\* When json.dumps raises, nothing is sent and the
\* iteration ends without an await.
on_event(task_id, event, outcome) ==
    /\ pc[task_id] = "awaiting"
    /\ pulled[task_id] < MaxEvents
    /\ (Persisted(event) /\ task_id \in DOMAIN active_translations) \/ outcome = "ok"
    /\ pulled' = [pulled EXCEPT ![task_id] = @ + 1]
    /\ last' = [last EXCEPT ![task_id] = event]
    /\ written[task_id] # NotWritten => event = written[task_id]
    /\ files' = IF written[task_id] = NotWritten THEN files \cup EngineWrites(event)
                ELSE files
    /\ IF task_id \in DOMAIN active_translations
       THEN LET task == ApplyEvent(active_translations[task_id], event, clock)
                dumps_raises == task_id \in DOMAIN connected_clients /\ ~ JsonSerialisable(event)
            IN /\ active_translations' =
                     [active_translations EXCEPT ![task_id] =
                         IF dumps_raises THEN on_send_error(task, clock + 1) ELSE task]
               /\ history_file' = IF Persisted(event)
                                  THEN add_to_history(history_file, task, outcome)
                                  ELSE history_file
               /\ clock' = IF ReadsClock(event) THEN clock + 1 ELSE clock
               /\ log' = [log EXCEPT ![task_id] =
                             @ \o EventEffects(event, pulled'[task_id])
                               \o IF dumps_raises
                                  THEN << Effect("send_failed", pulled'[task_id],
                                                 connected_clients[task_id]) >>
                                  ELSE << >>]
               /\ pc' = [pc EXCEPT ![task_id] =
                            IF dumps_raises THEN "awaiting" ELSE PcAfterEvent(task_id)]
               /\ sending' = IF task_id \in DOMAIN connected_clients /\ ~ dumps_raises
                             THEN [sending EXCEPT ![task_id] =
                                      [sink |-> connected_clients[task_id],
                                       ev |-> pulled'[task_id]]]
                             ELSE sending
       ELSE UNCHANGED << active_translations, history_file, clock, log, pc, sending >>
    /\ response' = NoResponse
    /\ UNCHANGED << written, connected_clients, ws >>

\* The awaited send_text returns, or raises because the connection is
\* closed; the failure is swallowed and the loop goes on to the next event
\* (lines 358-362).
send_done(task_id) ==
    /\ sending[task_id] # NoSend
    /\ pc' = [pc EXCEPT ![task_id] = "awaiting"]
    /\ sending' = [sending EXCEPT ![task_id] = NoSend]
    /\ IF ws[sending[task_id].sink].state = "open"
       THEN /\ log' = [log EXCEPT ![task_id] =
                          Append(@, Effect("publish", sending[task_id].ev, sending[task_id].sink))]
            /\ UNCHANGED active_translations
       ELSE /\ log' = [log EXCEPT ![task_id] =
                          Append(@, Effect("send_failed", sending[task_id].ev, sending[task_id].sink))]
            /\ active_translations' =
                  IF task_id \in DOMAIN active_translations
                  THEN [active_translations EXCEPT ![task_id] = on_send_error(@, clock)]
                  ELSE active_translations
    /\ response' = NoResponse
    /\ UNCHANGED << written, connected_clients, history_file, files, clock, pulled, last, ws >>

\* The stream is exhausted: the loop ends and the coroutine returns.
on_stream_end(task_id) ==
    /\ pc[task_id] = "awaiting"
    /\ pc' = [pc EXCEPT ![task_id] = "done"]
    /\ last' = [last EXCEPT ![task_id] = [type |-> "StopAsyncIteration"]]
    /\ response' = NoResponse
    /\ UNCHANGED << written, active_translations, connected_clients, history_file, files,
                    clock, pulled, sending, ws, log >>

\* The dict update of the except clause (lines 366-370).
ApplyException(task, args, now) ==
    [status |-> "error", error |-> ExcStr(args), end_time |-> now] @@ task

\* Side effects of the except clause, in code order.
ExceptionEffects(ev) == << Effect("registry", ev, "-"), Effect("history", ev, "-") >>

\* The stream raises: the except clause (lines 364-372), then the coroutine
\* returns.
on_exception(task_id, args, outcome) ==
    /\ pc[task_id] = "awaiting"
    /\ task_id \in DOMAIN active_translations \/ outcome = "ok"
    /\ pc' = [pc EXCEPT ![task_id] = "done"]
    /\ last' = [last EXCEPT ![task_id] = [type |-> "Exception", args |-> args]]
    /\ IF task_id \in DOMAIN active_translations
       THEN LET task == ApplyException(active_translations[task_id], args, clock)
            IN /\ active_translations' = [active_translations EXCEPT ![task_id] = task]
               /\ history_file' = add_to_history(history_file, task, outcome)
               /\ clock' = clock + 1
               /\ log' = [log EXCEPT ![task_id] = @ \o ExceptionEffects(pulled[task_id] + 1)]
       ELSE UNCHANGED << active_translations, history_file, clock, log >>
    /\ response' = NoResponse
    /\ UNCHANGED << written, connected_clients, files, pulled, sending, ws >>

\* ------------------------------------------------------ websocket_endpoint
\* Mutant of Register: a sink that is already registered is kept.
RegisterFirstWins(clients, task_id, websocket) == clients @@ (task_id :> websocket)

\* connected_clients[task_id] = websocket (line 386).
Register(clients, task_id, websocket) == (task_id :> websocket) @@ clients

websocket_endpoint(websocket, task_id) ==
    /\ ws[websocket].state = "fresh"
    /\ ws' = [ws EXCEPT ![websocket] = [state |-> "open", task_id |-> task_id]]
    /\ connected_clients' = Register(connected_clients, task_id, websocket)
    /\ response' = NoResponse
    /\ UNCHANGED << written, active_translations, history_file, files, clock, pc, pulled,
                    last, sending, log >>

Without(d, keys) == [k \in DOMAIN d \ keys |-> d[k]]

\* receive_text raises WebSocketDisconnect (lines 391-393).
on_disconnect(websocket) ==
    /\ ws[websocket].state = "open"
    /\ ws' = [ws EXCEPT ![websocket].state = "closed"]
    /\ connected_clients' = Without(connected_clients, {ws[websocket].task_id})
    /\ response' = NoResponse
    /\ UNCHANGED << written, active_translations, history_file, files, clock, pc, pulled,
                    last, sending, log >>

\* ------------------------------------------------------------------ delete
\* Mutant of delete_translation: the registry entry is removed before the
\* history is searched.
delete_translation_registry_first(task_id, outcome) ==
    LET history == load_history(history_file)
        kept == LET Keep(item) == Get(item, "task_id", None) # task_id
                IN SelectSeq(history, Keep)
        found == Len(kept) # Len(history)
    IN /\ found \/ outcome = "ok"
       /\ history_file' = IF found THEN save_history(history_file, kept, outcome)
                          ELSE history_file
       /\ active_translations' = Without(active_translations, {task_id})
       /\ response' = [handler |-> "delete_translation", request |-> {task_id},
                       status |-> IF found THEN 200 ELSE 404]
       /\ UNCHANGED << written, connected_clients, files, clock, pc, pulled, last,
                       sending, ws, log >>

\* Mutant of delete_translation: the registry entry is not removed.
delete_translation_history_only(task_id, outcome) ==
    LET history == load_history(history_file)
        kept == LET Keep(item) == Get(item, "task_id", None) # task_id
                IN SelectSeq(history, Keep)
        found == Len(kept) # Len(history)
    IN /\ found \/ outcome = "ok"
       /\ history_file' = IF found THEN save_history(history_file, kept, outcome)
                          ELSE history_file
       /\ response' = [handler |-> "delete_translation", request |-> {task_id},
                       status |-> IF found THEN 200 ELSE 404]
       /\ UNCHANGED << written, active_translations, connected_clients, files, clock, pc,
                       pulled, last, sending, ws, log >>

\* HTTP 404 when no history entry has the task_id, before anything is
\* written (lines 533-534).
delete_translation(task_id, outcome) ==
    LET history == load_history(history_file)
        kept == LET Keep(item) == Get(item, "task_id", None) # task_id
                IN SelectSeq(history, Keep)
        found == Len(kept) # Len(history)
    IN /\ found \/ outcome = "ok"
       /\ history_file' = IF found THEN save_history(history_file, kept, outcome)
                          ELSE history_file
       /\ active_translations' = IF found THEN Without(active_translations, {task_id})
                                 ELSE active_translations
       /\ response' = [handler |-> "delete_translation", request |-> {task_id},
                       status |-> IF found THEN 200 ELSE 404]
       /\ UNCHANGED << written, connected_clients, files, clock, pc, pulled, last,
                       sending, ws, log >>

\* HTTP 404 when no history entry has one of the task_ids (lines 555-556);
\* else every listed task_id leaves the registry (lines 561-563).
delete_multiple_translations(task_ids, outcome) ==
    LET history == load_history(history_file)
        kept == LET Keep(item) == Get(item, "task_id", None) \notin task_ids
                IN SelectSeq(history, Keep)
        deleted_count == Len(history) - Len(kept)
    IN /\ deleted_count # 0 \/ outcome = "ok"
       /\ history_file' = IF deleted_count # 0 THEN save_history(history_file, kept, outcome)
                          ELSE history_file
       /\ active_translations' = IF deleted_count # 0
                                 THEN Without(active_translations, task_ids)
                                 ELSE active_translations
       /\ response' = [handler |-> "delete_multiple_translations", request |-> task_ids,
                       status |-> IF deleted_count # 0 THEN 200 ELSE 404,
                       deleted_count |-> deleted_count]
       /\ UNCHANGED << written, connected_clients, files, clock, pc, pulled, last,
                       sending, ws, log >>

\* ----------------------------------------------------------------- cleanup
\* Mutant of ResultPaths: the dual path is not collected.
ResultPathsMonoOnly(task) ==
    LET result == Get(task, "result", << >>)
    IN { result[k] : k \in { x \in DOMAIN result \cap {"mono_pdf_path"} : result[x] # None } }

\* task.get('result', {}) and the paths it names (lines 593-600).
ResultPaths(task) ==
    LET result == Get(task, "result", << >>)
    IN { result[k] : k \in { x \in DOMAIN result \cap {"mono_pdf_path", "dual_pdf_path"} :
                                result[x] # None } }

history_files(history) == UNION { ResultPaths(history[i]) : i \in 1..Len(history) }

orphan_files(history, existing_files) == existing_files \ history_files(history)

\* Mutant of Missing: a side without a path counts as missing.
MissingOrAbsent(result, side, existing_files) ==
    /\ side \in DOMAIN result
    /\ result[side] \notin existing_files

\* "path and not Path(path).exists()" for one side of a result.
Missing(result, side, existing_files) ==
    /\ side \in DOMAIN result
    /\ result[side] # None
    /\ result[side] \notin existing_files

IsOrphanRecord(task, existing_files) ==
    /\ Get(task, "status", None) = "completed"
    /\ LET result == Get(task, "result", << >>)
       IN /\ DOMAIN result # {}
          /\ \/ Missing(result, "mono_pdf_path", existing_files)
             \/ Missing(result, "dual_pdf_path", existing_files)

orphan_records(history, existing_files) ==
    { Get(history[i], "task_id", None) :
        i \in { k \in 1..Len(history) : IsOrphanRecord(history[k], existing_files) } }

\* The orphan_records list of the report, in history order (lines 627-644);
\* mono_missing and dual_missing are given by their truth value.
OrphanRecordList(history, existing_files) ==
    LET IsOrphan(task) == IsOrphanRecord(task, existing_files)
        orphans == SelectSeq(history, IsOrphan)
    IN [i \in 1..Len(orphans) |->
          [task_id |-> Get(orphans[i], "task_id", None),
           mono_missing |-> Missing(orphans[i].result, "mono_pdf_path", existing_files),
           dual_missing |-> Missing(orphans[i].result, "dual_pdf_path", existing_files)]]

\* What file_path.unlink() does to one orphan file: it removes the file, or
\* raises PermissionError, FileNotFoundError (the file went away after the
\* scan) or another OSError.
UnlinkOutcomes == {"ok", "PermissionError", "FileNotFoundError", "OSError"}

\* Mutant of Attempted: the orphan files are unlinked whatever the flag.
AttemptedAlways(delete_orphan_files, unlink) == unlink

\* "if request.delete_orphan_files:" (line 650): the unlinks that are run.
Attempted(delete_orphan_files, unlink) ==
    IF delete_orphan_files THEN unlink ELSE << >>

\* Mutant of UnlinkErrors: only PermissionError is caught and recorded.
UnlinkErrorsPermissionOnly(unlink) ==
    { [type |-> "permission_error", file |-> p] :
         p \in { q \in DOMAIN unlink : unlink[q] = "PermissionError" } }

\* The except clauses of the deletion loop (lines 661-687).
UnlinkErrors(unlink) ==
    { [type |-> "permission_error", file |-> p] :
         p \in { q \in DOMAIN unlink : unlink[q] = "PermissionError" } }
    \cup { [type |-> "unknown_error", file |-> p] :
              p \in { q \in DOMAIN unlink : unlink[q] = "OSError" } }

UnlinkWarnings(unlink) ==
    { [type |-> "file_not_found", file |-> p] :
         p \in { q \in DOMAIN unlink : unlink[q] = "FileNotFoundError" } }

\* unlink: what the unlink of each orphan file does.
cleanup_files(delete_orphan_files, delete_orphan_records, unlink, outcome) ==
    LET history == load_history(history_file)
        orphans == orphan_files(history, files)
        records == OrphanRecordList(history, files)
        task_ids_to_delete == orphan_records(history, files)
        updated_history == LET Keep(task) == Get(task, "task_id", None) \notin task_ids_to_delete
                           IN SelectSeq(history, Keep)
        attempted == Attempted(delete_orphan_files, unlink)
    IN /\ DOMAIN unlink = orphans
       /\ delete_orphan_files \/ \A p \in orphans : unlink[p] = "ok"
       /\ (delete_orphan_records /\ task_ids_to_delete # {}) \/ outcome = "ok"
       /\ files' = files \ { p \in DOMAIN attempted :
                                 attempted[p] \in {"ok", "FileNotFoundError"} }
       /\ history_file' = IF delete_orphan_records /\ task_ids_to_delete # {}
                          THEN save_history(history_file, updated_history, outcome)
                          ELSE history_file
       /\ response' =
             [handler |-> "cleanup_files",
              request |-> [delete_orphan_files |-> delete_orphan_files,
                           delete_orphan_records |-> delete_orphan_records],
              status |-> 200,
              cleanup_result |->
                 [orphan_files |-> orphans,
                  orphan_records |-> records,
                  deleted_files |-> Cardinality({ p \in DOMAIN attempted : attempted[p] = "ok" }),
                  deleted_records |-> IF delete_orphan_records THEN Len(records) ELSE 0,
                  errors |-> UnlinkErrors(attempted),
                  warnings |-> UnlinkWarnings(attempted)]]
       /\ UNCHANGED << written, active_translations, connected_clients, clock, pc, pulled,
                       last, sending, ws, log >>

\* A user removes an output file from disk.
remove_file(path) ==
    /\ path \in files
    /\ files' = files \ {path}
    /\ response' = NoResponse
    /\ UNCHANGED << written, active_translations, connected_clients, history_file, clock,
                    pc, pulled, last, sending, ws, log >>

\* The engine writes the output files of the finish event it is about to
\* yield into output_dir; the event is handled in a later step of the
\* event loop.
engine_write(task_id, event) ==
    /\ pc[task_id] \in {"awaiting", "sending"}
    /\ pulled[task_id] < MaxEvents
    /\ written[task_id] = NotWritten
    /\ EngineWrites(event) # {}
    /\ files' = files \cup EngineWrites(event)
    /\ written' = [written EXCEPT ![task_id] = event]
    /\ response' = NoResponse
    /\ UNCHANGED << active_translations, connected_clients, history_file, clock,
                    pc, pulled, last, sending, ws, log >>

\* ------------------------------------------------------------------ status
\* HTTP 404 when the task is not in the registry (lines 377-378), else the
\* task dict.
get_translation_status(task_id) ==
    /\ response' = IF task_id \in DOMAIN active_translations
                   THEN [handler |-> "get_translation_status", request |-> task_id,
                         status |-> 200, task |-> active_translations[task_id]]
                   ELSE [handler |-> "get_translation_status", request |-> task_id,
                         status |-> 404]
    /\ UNCHANGED << written, active_translations, connected_clients, history_file, files,
                    clock, pc, pulled, last, sending, ws, log >>

\* ----------------------------------------------------------------- restart
\* The process stops while a coroutine is alive and is started again: the
\* module is loaded anew, so both dicts are empty (lines 150-151), every
\* coroutine and connection is gone, and the history file and the output
\* files are what they were.
restart ==
    /\ \E j \in TaskIds : pc[j] \in {"awaiting", "sending"}
    /\ active_translations' = << >>
    /\ connected_clients' = << >>
    /\ pc' = [j \in TaskIds |-> IF pc[j] = "unborn" THEN "unborn" ELSE "lost"]
    /\ sending' = [j \in TaskIds |-> NoSend]
    /\ ws' = [s \in Sockets |-> IF ws[s].state = "open"
                                THEN [ws[s] EXCEPT !.state = "closed"] ELSE ws[s]]
    /\ response' = NoResponse
    /\ UNCHANGED << history_file, files, clock, pulled, last, log >>
    /\ written' = [j \in TaskIds |-> NotWritten]

\* -------------------------------------------------------------------- next
\* One job, one WebSocket, every engine event and exception, every outcome
\* of a history write.
TheJob == {"t1"}
TheSocket == {"wsA"}

Next ==
    \/ \E j \in TheJob, o \in WriteOutcomes : start_translation(j, o)
    \/ \E j \in TheJob, o \in WriteOutcomes : \E e \in EngineEvents(j) : on_event(j, e, o)
    \/ \E j \in TheJob : send_done(j)
    \/ \E j \in TheJob : on_stream_end(j)
    \/ \E j \in TheJob, a \in EngineExceptions, o \in WriteOutcomes : on_exception(j, a, o)
    \/ \E s \in TheSocket, j \in TheJob : websocket_endpoint(s, j)
    \/ \E s \in TheSocket : on_disconnect(s)
    \/ \E j \in TheJob, o \in WriteOutcomes : delete_translation(j, o)

Spec == Init /\ [][Next]_vars

\* The engine of the two-job specifications reports one progress value, one
\* finish and one error.
FewEvents(j) ==
    { e \in EngineEvents(j) :
        \/ e.type = "progress_update" /\ e.overall_progress = 70
        \/ e.type = "finish" /\ e.translate_result =
              [shape |-> "object", mono_pdf_path |-> PyPath(MonoPath(j)),
               dual_pdf_path |-> PyNone]
        \/ e.type = "error" /\ "error" \in DOMAIN e }

FewExceptions == { <<"crash">> }

\* A history write succeeds or fails after open() has truncated the file.
FewOutcomes == {"ok", "partial"}

\* Two concurrent jobs whose history writes can fail.
NextIsolation ==
    \/ \E j \in TaskIds, o \in FewOutcomes : start_translation(j, o)
    \/ \E j \in TaskIds, o \in FewOutcomes : \E e \in FewEvents(j) : on_event(j, e, o)
    \/ \E j \in TaskIds : on_stream_end(j)
    \/ \E j \in TaskIds, a \in FewExceptions, o \in FewOutcomes : on_exception(j, a, o)

SpecIsolation == Init /\ [][NextIsolation]_vars

\* The task_ids a client sees in the history list.
Listed == { j \in TaskIds : Matches(load_history(history_file), j) # {} }

\* Two concurrent jobs, a WebSocket that subscribes to either of them and the
\* delete handler called for listed jobs; every history write succeeds.
OrderEvents(j) == { e \in FewEvents(j) : e.type \in {"progress_update", "finish"} }

NextOrder ==
    \/ \E j \in TaskIds : start_translation(j, "ok")
    \/ \E j \in TaskIds : \E e \in OrderEvents(j) : on_event(j, e, "ok")
    \/ \E j \in TaskIds : send_done(j)
    \/ \E j \in TaskIds : on_stream_end(j)
    \/ \E j \in TaskIds, a \in FewExceptions : on_exception(j, a, "ok")
    \/ \E s \in TheSocket, j \in TaskIds : websocket_endpoint(s, j)
    \/ \E s \in TheSocket : on_disconnect(s)
    \/ \E j \in Listed : delete_translation(j, "ok")

SpecOrder == Init /\ [][NextOrder]_vars

\* The scan of a cleanup would report an orphan file or an orphan record.
HasOrphans ==
    \/ orphan_files(load_history(history_file), files) # {}
    \/ orphan_records(load_history(history_file), files) # {}

\* Two jobs that report progress and finish, with deletions of listed jobs,
\* cleanups that find an orphan and whose unlinks succeed, and files removed
\* from disk; no WebSocket.
NextHistory ==
    \/ \E j \in TaskIds, o \in FewOutcomes : start_translation(j, o)
    \/ \E j \in TaskIds, o \in FewOutcomes : \E e \in OrderEvents(j) : on_event(j, e, o)
    \/ \E j \in TaskIds : on_stream_end(j)
    \/ \E j \in Listed : delete_translation(j, "ok")
    \/ \E ids \in SUBSET Listed \ {{}} : delete_multiple_translations(ids, "ok")
    \/ \E df \in BOOLEAN, dr \in BOOLEAN : HasOrphans /\
          \E u \in [orphan_files(load_history(history_file), files) -> {"ok"}] :
             cleanup_files(df, dr, u, "ok")
    \/ \E p \in files : remove_file(p)

SpecHistory == Init /\ [][NextHistory]_vars

\* One job that reports progress, finish and error, and two WebSockets that
\* subscribe to it and disconnect; every history write succeeds.
NextSinks ==
    \/ \E j \in TheJob : start_translation(j, "ok")
    \/ \E j \in TheJob : \E e \in FewEvents(j) : on_event(j, e, "ok")
    \/ \E j \in TheJob : send_done(j)
    \/ \E j \in TheJob : on_stream_end(j)
    \/ \E j \in TheJob, a \in FewExceptions : on_exception(j, a, "ok")
    \/ \E s \in Sockets, j \in TheJob : websocket_endpoint(s, j)
    \/ \E s \in Sockets : on_disconnect(s)

SpecSinks == Init /\ [][NextSinks]_vars

\* Two jobs whose history writes can fail, and both delete handlers called
\* with any task_ids, listed or not.
NextDelete ==
    \/ \E j \in TaskIds, o \in FewOutcomes : start_translation(j, o)
    \/ \E j \in TaskIds, o \in FewOutcomes : \E e \in OrderEvents(j) : on_event(j, e, o)
    \/ \E j \in TaskIds : on_stream_end(j)
    \/ \E j \in TaskIds : delete_translation(j, "ok")
    \/ \E ids \in SUBSET TaskIds : delete_multiple_translations(ids, "ok")

SpecDelete == Init /\ [][NextDelete]_vars

\* The engine of the cleanup specification: the first job finishes with
\* both output files or with the mono file only, or reports an error; the
\* second job finishes with the mono file only.
CleanupEvents(j) ==
    { e \in EngineEvents(j) :
        \/ /\ e.type = "finish"
           /\ e.translate_result.shape = "object"
           /\ e.translate_result.mono_pdf_path = PyPath(MonoPath(j))
           /\ j \notin TheJob => e.translate_result.dual_pdf_path = PyNone
        \/ j \in TheJob /\ e.type = "error" /\ "error" \in DOMAIN e }

\* Two jobs submitted one after the other, deletions of listed jobs, files
\* removed from disk and cleanups with every flag and every outcome of each
\* unlink; every history write succeeds.
NextCleanup ==
    \/ \E j \in TaskIds :
          /\ j \notin TheJob => \A k \in TheJob : pc[k] # "unborn"
          /\ start_translation(j, "ok")
    \/ \E j \in TaskIds : \E e \in CleanupEvents(j) : on_event(j, e, "ok")
    \/ \E j \in Listed : delete_translation(j, "ok")
    \/ \E p \in files : remove_file(p)
    \/ \E df \in BOOLEAN, dr \in BOOLEAN :
          \E u \in [orphan_files(load_history(history_file), files) -> UnlinkOutcomes] :
             cleanup_files(df, dr, u, "ok")

SpecCleanup == Init /\ [][NextCleanup]_vars

\* Two jobs whose history writes can fail, a process that restarts while a
\* job runs, the status query, deletions of listed jobs and cleanups that
\* find an orphan and whose unlinks succeed.
NextRestart ==
    \/ \E j \in TaskIds, o \in FewOutcomes : start_translation(j, o)
    \/ \E j \in TaskIds, o \in FewOutcomes : \E e \in OrderEvents(j) : on_event(j, e, o)
    \/ restart
    \/ \E j \in TaskIds : get_translation_status(j)
    \/ \E j \in Listed : delete_translation(j, "ok")
    \/ \E p \in files : remove_file(p)
    \/ \E df \in BOOLEAN, dr \in BOOLEAN : HasOrphans /\
          \E u \in [orphan_files(load_history(history_file), files) -> {"ok"}] :
             cleanup_files(df, dr, u, "ok")

SpecRestart == Init /\ [][NextRestart]_vars

\* Two jobs submitted one after the other whose engines write their output
\* files before the finish event is handled, and cleanups with every flag
\* and every outcome of each unlink; every history write succeeds.
NextEngine ==
    \/ \E j \in TaskIds :
          /\ j \notin TheJob => \A k \in TheJob : pc[k] # "unborn"
          /\ start_translation(j, "ok")
    \/ \E j \in TaskIds : \E e \in CleanupEvents(j) : engine_write(j, e)
    \/ \E j \in TaskIds : \E e \in CleanupEvents(j) : on_event(j, e, "ok")
    \/ \E j \in Listed : delete_translation(j, "ok")
    \/ \E df \in BOOLEAN, dr \in BOOLEAN :
          \E u \in [orphan_files(load_history(history_file), files) -> UnlinkOutcomes] :
             cleanup_files(df, dr, u, "ok")

SpecEngine == Init /\ [][NextEngine]_vars

\* ------------------------------------------------------------------ claims
\* The step is one loop iteration of task j's run_translation.
PullsEvent(j) == pulled'[j] = pulled[j] + 1

\* The step is the except clause of task j's run_translation.
CatchesException(j) == pc[j] = "awaiting" /\ pc'[j] = "done" /\ last'[j].type = "Exception"

\* C1: for every job and every engine event sequence, the status only ever
\* changes running -> completed or running -> error; once it is completed
\* or error no later event or exception changes it.
C1_StatusLeavesOnlyRunning ==
    [][\A j \in TaskIds :
          (j \in DOMAIN active_translations /\ j \in DOMAIN active_translations') =>
             \/ active_translations'[j].status = active_translations[j].status
             \/ /\ active_translations[j].status = "running"
                /\ active_translations'[j].status \in {"completed", "error"}]_vars

\* C2: in every reachable state every tracked job has a result exactly when
\* its status is completed, an error exactly when its status is error, and
\* never both.
C2_ResultXorError ==
    \A j \in DOMAIN active_translations :
       LET task == active_translations[j]
       IN /\ ("result" \in DOMAIN task) <=> (task.status = "completed")
          /\ ("error" \in DOMAIN task) <=> (task.status = "error")
          /\ ~ ("result" \in DOMAIN task /\ "error" \in DOMAIN task)

\* C3: once the engine stream of a tracked job is over (exhausted or raised)
\* the job's status is completed or error, never running.
C3_NoRunningAfterStream ==
    \A j \in DOMAIN active_translations :
       pc[j] = "done" => active_translations[j].status \in {"completed", "error"}

\* C4: after the engine raised while a tracked job's stream was consumed,
\* the record has status error, an end_time and a non-empty error text.
C4_ExceptionGivesDescribedError ==
    \A j \in DOMAIN active_translations :
       last[j].type = "Exception" =>
          LET task == active_translations[j]
          IN /\ task.status = "error"
             /\ "end_time" \in DOMAIN task
             /\ "error" \in DOMAIN task
             /\ task.error # ""

\* The string form of the path a finish event carries.
Reported(v) == IF v.py = "NoneType" THEN None ELSE v.s

\* C5: when a job that has seen only progress updates receives a finish
\* event carrying mono_pdf_path = p, its record has status completed,
\* progress 100 and result.mono_pdf_path = p.
C5_FinishRecordsResult ==
    [][\A j \in TaskIds :
          ( /\ PullsEvent(j)
            /\ last'[j].type = "finish"
            /\ j \in DOMAIN active_translations
            /\ active_translations[j].status = "running" ) =>
             LET task == active_translations'[j]
             IN /\ task.status = "completed"
                /\ task.progress = 100
                /\ "result" \in DOMAIN task
                /\ task.result.mono_pdf_path =
                      Reported(last'[j].translate_result.mono_pdf_path)]_vars

\* C6: end_time is absent while a job is running, is written when the job
\* becomes completed or error, and no later event or exception writes it
\* again.
C6_EndTimeWrittenOnce ==
    [][\A j \in TaskIds :
          (j \in DOMAIN active_translations /\ j \in DOMAIN active_translations') =>
             LET old == active_translations[j]
                 new == active_translations'[j]
             IN /\ (new.status = "running") <=> ("end_time" \notin DOMAIN new)
                /\ "end_time" \in DOMAIN old =>
                      "end_time" \in DOMAIN new /\ new.end_time = old.end_time]_vars

\* C9: an engine error event and an exception raised by the stream both
\* upsert the error record into the history and both publish an event to
\* the sink the job has at that moment.
C9_ErrorAndExceptionPersistAndPublish ==
    [][\A j \in TaskIds :
          ( /\ j \in DOMAIN active_translations
            /\ \/ PullsEvent(j) /\ last'[j].type = "error"
               \/ CatchesException(j) ) =>
             /\ active_translations'[j].status = "error"
             /\ Len(log'[j]) > Len(log[j])
             /\ log'[j][Len(log'[j])].op = "history"
             /\ j \in DOMAIN connected_clients =>
                   sending'[j].sink = connected_clients[j]]_vars

\* The entries of the history file that belong to task j.
HistoryEntries(file, j) ==
    LET Mine(item) == Get(item, "task_id", None) = j
    IN SelectSeq(load_history(file), Mine)

\* The step is a failure while task a's events are consumed or persisted: an
\* error event, an exception, or a history write that failed.
FailureStep(a) ==
    /\ PullsEvent(a) \/ CatchesException(a)
    /\ \/ last'[a].type \in {"error", "Exception"}
       \/ history_file'.state = "corrupt"

\* C7: a failure while job A's events are consumed or persisted changes
\* neither the registry record nor the history entry of another job B, and
\* leaves B's coroutine where it was.
C7_FailureLeavesOtherJobAlone ==
    [][\A a \in TaskIds, b \in TaskIds :
          (a # b /\ FailureStep(a)) =>
             /\ (b \in DOMAIN active_translations) <=> (b \in DOMAIN active_translations')
             /\ b \in DOMAIN active_translations =>
                   active_translations'[b] = active_translations[b]
             /\ HistoryEntries(history_file', b) = HistoryEntries(history_file, b)
             /\ pc'[b] = pc[b] /\ pulled'[b] = pulled[b] /\ sending'[b] = sending[b]]_vars

Rank(op) ==
    CASE op = "registry" -> 1 [] op = "history" -> 2
      [] op \in {"publish", "send_failed"} -> 3

\* C8: within one job the side effects are applied event by event in the
\* order the events were pulled, and for one event in the order registry
\* update, history upsert, publish; while a publish is in flight no later
\* event of the job has been pulled.
C8_EffectsInEventOrder ==
    \A j \in TaskIds :
       /\ \A i \in 1..Len(log[j]), k \in 1..Len(log[j]) :
             i < k =>
                \/ log[j][i].ev < log[j][k].ev
                \/ log[j][i].ev = log[j][k].ev /\ Rank(log[j][i].op) < Rank(log[j][k].op)
       /\ sending[j] # NoSend => sending[j].ev = pulled[j]
       /\ \A i \in 1..Len(log[j]) : log[j][i].ev <= pulled[j] + 1

\* Witness of C8: a job has published its first event and applied its
\* second while the other job has applied an event of its own.
C8_Witness ==
    \E j \in TaskIds, b \in TaskIds :
       /\ j # b
       /\ Len(log[j]) >= 5
       /\ log[j][3].op = "publish"
       /\ log[j][4].ev = 2
       /\ Len(log[b]) >= 2

OneEntryPerTask(file) ==
    \A j \in TaskIds : Cardinality(Matches(file.data, j)) <= 1

\* C10: starting from an empty history the history file never holds two
\* entries with the same task_id, and a successful upsert for a task that
\* already has an entry replaces that entry in place with the new snapshot.
C10_OneEntryPerTaskId ==
    [][/\ OneEntryPerTask(history_file')
       /\ \A j \in TaskIds :
             ( /\ PullsEvent(j)
               /\ j \in DOMAIN active_translations
               /\ Matches(load_history(history_file), j) # {}
               /\ history_file'.state = "valid" ) =>
                /\ Len(history_file'.data) = Len(history_file.data)
                /\ \A i \in Matches(load_history(history_file), j) :
                      history_file'.data[i] = active_translations'[j]]_vars

\* Witness of C10: the history holds the entries of two tasks and one of
\* them is the snapshot a finish event has written over the earlier one.
C10_Witness ==
    /\ history_file.state = "valid"
    /\ Len(history_file.data) = 2
    /\ \E i \in 1..2 : history_file.data[i].status = "completed"
    /\ OneEntryPerTask(history_file)

\* The step is a mutation of task j's record by run_translation: the branch
\* of a progress_update, finish or error event, or the except clause.
MutatesRecord(j) ==
    /\ j \in DOMAIN active_translations
    /\ \/ PullsEvent(j) /\ last'[j].type \in {"progress_update", "finish", "error"}
       \/ CatchesException(j)

C12_HistoryWriteAtomic ==
    [][/\ history_file'.state # "corrupt"
       /\ history_file' # history_file =>
             \A j \in TaskIds :
                (HistoryEntries(history_file, j) # << >> /\ ~ PullsEvent(j)
                   /\ ~ CatchesException(j)) =>
                   HistoryEntries(history_file', j) = HistoryEntries(history_file, j)]_vars

\* The step is the subscription of WebSocket s to task j.
Subscribes(s, j) == ws[s].state = "fresh" /\ ws'[s] = [state |-> "open", task_id |-> j]

\* The effects the step appends to task j's log.
Appended(j) == SubSeq(log'[j], Len(log[j]) + 1, Len(log'[j]))

SendOps == {"publish", "send_failed"}

\* C13: a job has at most one registered sink; a subscription replaces the
\* sink registered before it, an event is sent to the sink registered when
\* it is handled and to no other, and an event handled while no sink is
\* registered sends nothing and leaves the coroutine at the next pull.
C13_LastSubscriberOnly ==
    [][\A j \in TaskIds :
          /\ \A s \in Sockets : Subscribes(s, j) => connected_clients'[j] = s
          /\ (PullsEvent(j) /\ j \notin DOMAIN connected_clients) =>
                /\ sending'[j] = NoSend
                /\ pc'[j] = "awaiting"
                /\ \A i \in 1..Len(Appended(j)) : Appended(j)[i].op \notin SendOps
          /\ (PullsEvent(j) /\ j \in DOMAIN connected_clients) =>
                /\ sending'[j] # NoSend => sending'[j].sink = connected_clients[j]
                /\ \A i \in 1..Len(Appended(j)) :
                      Appended(j)[i].op \in SendOps => Appended(j)[i].to = connected_clients[j]
          /\ (~ PullsEvent(j) /\ ~ CatchesException(j)) =>
                \A i \in 1..Len(Appended(j)) :
                   /\ Appended(j)[i].op \in SendOps
                   /\ Appended(j)[i].to = sending[j].sink
                   /\ Appended(j)[i].ev = sending[j].ev]_vars

\* Witness of C13: two sinks have subscribed to the job and both are open;
\* the first event was published to one of them, the second event to the
\* other, which is the registered one.
C13_Witness ==
    \E j \in TaskIds, a \in Sockets, b \in Sockets :
       /\ a # b
       /\ ws[a] = [state |-> "open", task_id |-> j]
       /\ ws[b] = [state |-> "open", task_id |-> j]
       /\ connected_clients[j] = b
       /\ \E i \in 1..Len(log[j]) : log[j][i] = Effect("publish", 1, a)
       /\ \E i \in 1..Len(log[j]) : log[j][i] = Effect("publish", 2, b)

\* The step is a failed send of task j: send_text or json.dumps raised.
SendFails(j) ==
    /\ Len(log'[j]) > Len(log[j])
    /\ log'[j][Len(log'[j])].op = "send_failed"

\* C14: when the send of an event fails, the registry record and the
\* history entry of the job are as the event set them, the status is not
\* moved to error by the failure, and the coroutine is at the pull of the
\* next event.
C14_SendFailureIsDropped ==
    [][\A j \in TaskIds :
          (SendFails(j) /\ j \in DOMAIN active_translations) =>
             /\ pc'[j] = "awaiting"
             /\ IF PullsEvent(j)
                THEN /\ active_translations'[j] =
                           ApplyEvent(active_translations[j], last'[j], clock)
                     /\ last'[j].type \in {"progress_update", "finish", "error"} =>
                           HistoryEntries(history_file', j) = << active_translations'[j] >>
                ELSE /\ active_translations' = active_translations
                     /\ history_file' = history_file]_vars

\* Witness of C14: the send of the job's first event failed, the job is
\* still running and its second event has been applied and published.
C14_Witness ==
    \E j \in TaskIds, s \in Sockets, t \in Sockets :
       /\ Len(log[j]) >= 6
       /\ log[j][3] = Effect("send_failed", 1, s)
       /\ log[j][4] = Effect("registry", 2, "-")
       /\ log[j][6] = Effect("publish", 2, t)
       /\ active_translations[j].status = "running"

\* The step answers a delete request (single or batch).
AnswersDelete ==
    response'.handler \in {"delete_translation", "delete_multiple_translations"}

AnswersCleanup == response'.handler = "cleanup_files"

\* The task has a result that names a path for the side.
References(task, side) ==
    /\ "result" \in DOMAIN task
    /\ side \in DOMAIN task.result
    /\ task.result[side] # None

\* C16: a cleanup removes files only when delete_orphan_files is set and
\* changes the history only when delete_orphan_records is set; with both
\* flags unset it changes nothing, so that a second scan of the state it
\* leaves returns the same orphan_files and orphan_records.
C16_CleanupOnlyWhenAsked ==
    [][AnswersCleanup =>
          LET request == response'.request
              report == response'.cleanup_result
          IN /\ ~ request.delete_orphan_files =>
                   files' = files /\ report.deleted_files = 0
             /\ ~ request.delete_orphan_records =>
                   history_file' = history_file /\ report.deleted_records = 0
             /\ (~ request.delete_orphan_files /\ ~ request.delete_orphan_records) =>
                   /\ UNCHANGED << active_translations, connected_clients, history_file,
                                   files, clock, pc, pulled, last, sending, ws, log >>
                   /\ report.orphan_files = orphan_files(load_history(history_file'), files')
                   /\ report.orphan_records = OrphanRecordList(load_history(history_file'), files')]_vars

\* Witness of C16: a scan with both flags unset has reported an orphan file
\* and an orphan record, and both are still there.
C16_Witness ==
    /\ response.handler = "cleanup_files"
    /\ ~ response.request.delete_orphan_files
    /\ ~ response.request.delete_orphan_records
    /\ response.cleanup_result.orphan_files # {}
    /\ response.cleanup_result.orphan_files \subseteq files
    /\ Len(response.cleanup_result.orphan_records) > 0
    /\ \A i \in 1..Len(response.cleanup_result.orphan_records) :
          response.cleanup_result.orphan_records[i].task_id \in Listed

\* C17: a scan reports a history entry under orphan_records exactly when
\* its status is completed and a result path it names does not exist;
\* mono_missing and dual_missing are true exactly when that side names a
\* path that does not exist; running and error entries are never reported.
C17_OrphanRecordsExact ==
    [][AnswersCleanup =>
          LET history == load_history(history_file)
              records == response'.cleanup_result.orphan_records
              Gone(task, side) == References(task, side) /\ task.result[side] \notin files
          IN /\ \A i \in 1..Len(history) :
                   (\E k \in 1..Len(records) : records[k].task_id = history[i].task_id)
                   <=> /\ history[i].status = "completed"
                       /\ Gone(history[i], "mono_pdf_path") \/ Gone(history[i], "dual_pdf_path")
             /\ \A k \in 1..Len(records) :
                   \E i \in 1..Len(history) :
                      /\ history[i].task_id = records[k].task_id
                      /\ records[k].mono_missing <=> Gone(history[i], "mono_pdf_path")
                      /\ records[k].dual_missing <=> Gone(history[i], "dual_pdf_path")]_vars

\* Witness of C17: a scan has reported a completed job whose mono file is
\* gone and whose dual side names no path, while the history also holds an
\* entry with status error whose result names a file that is gone.
C17_Witness ==
    /\ response.handler = "cleanup_files"
    /\ \E k \in 1..Len(response.cleanup_result.orphan_records) :
          /\ response.cleanup_result.orphan_records[k].mono_missing
          /\ ~ response.cleanup_result.orphan_records[k].dual_missing
    /\ \E i \in 1..Len(load_history(history_file)) :
          LET task == load_history(history_file)[i]
          IN /\ task.status = "error"
             /\ References(task, "mono_pdf_path")
             /\ task.result.mono_pdf_path \notin files
             /\ \A k \in 1..Len(response.cleanup_result.orphan_records) :
                   response.cleanup_result.orphan_records[k].task_id # task.task_id

\* The files no entry of the history names in its result.
Unreferenced(history, existing_files) ==
    { p \in existing_files :
        \A i \in 1..Len(history) :
           \A side \in {"mono_pdf_path", "dual_pdf_path"} :
              References(history[i], side) => history[i].result[side] # p }

\* C18 as claimed: a scan lists under orphan_files exactly the files under
\* outputs/ that no history entry names, and a cleanup with
\* delete_orphan_files removes each of them and reports as deleted_files the
\* number of files it removed.
C18_OrphanFilesRemoved ==
    [][AnswersCleanup =>
          LET report == response'.cleanup_result
          IN /\ report.orphan_files = Unreferenced(load_history(history_file), files)
             /\ response'.request.delete_orphan_files =>
                   /\ report.orphan_files \cap files' = {}
                   /\ report.deleted_files = Cardinality(report.orphan_files)]_vars

\* C18 amended: a scan lists under orphan_files exactly the files under
\* outputs/ that no history entry names; a cleanup with delete_orphan_files
\* removes each of them whose unlink does not raise, leaves on disk those
\* for which it records an error, removes no other file, and reports as
\* deleted_files the number of files it removed.
C18_OrphanFilesRemovedUnlessFailed ==
    [][AnswersCleanup =>
          LET report == response'.cleanup_result
              failed == { e.file : e \in report.errors }
              gone == { w.file : w \in report.warnings }
          IN /\ report.orphan_files = Unreferenced(load_history(history_file), files)
             /\ response'.request.delete_orphan_files =>
                   /\ files' = files \ (report.orphan_files \ failed)
                   /\ report.deleted_files =
                         Cardinality((files \ files') \ gone)]_vars

\* Witness of C18: a cleanup with delete_orphan_files has removed one orphan
\* file, kept a second whose unlink raised, and left the file that a
\* history entry names.
C18_Witness ==
    /\ response.handler = "cleanup_files"
    /\ response.request.delete_orphan_files
    /\ response.cleanup_result.deleted_files = 1
    /\ Cardinality(response.cleanup_result.orphan_files) = 2
    /\ Cardinality(response.cleanup_result.orphan_files \cap files) = 1
    /\ response.cleanup_result.warnings = {}
    /\ history_files(load_history(history_file)) \cap files # {}

\* C19: in a cleanup with delete_orphan_files every orphan file ends in
\* exactly one outcome: removed and counted in deleted_files, recorded as a
\* permission or unknown error and left on disk, or recorded as a
\* file_not_found warning; whatever the outcomes, the record deletion that
\* was asked for is carried out.
C19_EveryOrphanFileHasOneOutcome ==
    [][(AnswersCleanup /\ response'.request.delete_orphan_files) =>
          LET report == response'.cleanup_result
              Errors(p) == { e \in report.errors : e.file = p }
              Warnings(p) == { w \in report.warnings : w.file = p }
              counted == { p \in report.orphan_files : Errors(p) = {} /\ Warnings(p) = {} }
          IN /\ \A p \in report.orphan_files :
                   /\ Cardinality(Errors(p)) + Cardinality(Warnings(p)) <= 1
                   /\ \A e \in Errors(p) : e.type \in {"permission_error", "unknown_error"}
                   /\ Errors(p) # {} <=> p \in files'
             /\ report.deleted_files = Cardinality(counted)
             /\ \A e \in report.errors \cup report.warnings : e.file \in report.orphan_files
             /\ response'.request.delete_orphan_records =>
                   /\ report.deleted_records = Len(report.orphan_records)
                   /\ \A k \in 1..Len(report.orphan_records) :
                         HistoryEntries(history_file', report.orphan_records[k].task_id) = << >>]_vars

\* Witness of C19: one cleanup has recorded an error for an orphan file,
\* removed another, and deleted an orphan record.
C19_Witness ==
    /\ response.handler = "cleanup_files"
    /\ response.cleanup_result.deleted_files = 1
    /\ response.cleanup_result.errors # {}
    /\ response.cleanup_result.deleted_records = 1
    /\ Listed = {}

\* C20: the progress of a job is 0 when the job is created, does not
\* decrease in a step taken while the status is running, and is 100 in
\* every state where the status is completed.
C20_ProgressMonotone ==
    [][\A j \in TaskIds :
          /\ (j \notin DOMAIN active_translations /\ j \in DOMAIN active_translations') =>
                active_translations'[j].progress = 0
          /\ (j \in DOMAIN active_translations /\ j \in DOMAIN active_translations'
                /\ active_translations[j].status = "running") =>
                active_translations'[j].progress >= active_translations[j].progress
          /\ (j \in DOMAIN active_translations'
                /\ active_translations'[j].status = "completed") =>
                active_translations'[j].progress = 100]_vars

\* The history holds one entry for task j and its status is running.
StoredRunning(file, j) ==
    /\ Len(HistoryEntries(file, j)) = 1
    /\ HistoryEntries(file, j)[1].status = "running"

\* The step answers a delete request that names task j.
Deletes(j) == AnswersDelete /\ j \in response'.request

\* C21: once the process has restarted while job j was running, the history
\* entry of j keeps status running through every step that is not a delete
\* of j, and every status query for j is answered with 404.
C21_AbandonedJobStaysRunning ==
    [][\A j \in TaskIds :
          (pc'[j] = "lost" /\ StoredRunning(history_file, j)) =>
             /\ Deletes(j) \/ HistoryEntries(history_file', j) = HistoryEntries(history_file, j)
             /\ (response'.handler = "get_translation_status" /\ response'.request = j) =>
                   response'.status = 404]_vars

Deleted(j) == pc[j] # "unborn" /\ j \notin Listed

\* C23: after a job is removed by delete while its stream still produces
\* events, an event or exception of the job leaves it without a registry
\* record and without a history entry, and starts no send to its sink.
C23_DeletedJobStaysDeleted ==
    [][\A j \in TaskIds :
          (Deleted(j) /\ (PullsEvent(j) \/ CatchesException(j))) =>
             /\ j \notin DOMAIN active_translations'
             /\ HistoryEntries(history_file', j) = << >>
             /\ sending'[j] = sending[j]
             /\ Appended(j) = << >>]_vars

\* Witness of C23: a job was deleted after its first event; its second
\* event, a finish, was pulled afterwards while a sink was registered for
\* it, and left no record, no entry and no send.
C23_Witness ==
    \E j \in TaskIds :
       /\ Deleted(j)
       /\ j \notin DOMAIN active_translations
       /\ pulled[j] = 2
       /\ last[j].type = "finish"
       /\ Len(log[j]) >= 2
       /\ \A i \in 1..Len(log[j]) : log[j][i].ev = 1
       /\ j \in DOMAIN connected_clients
       /\ sending[j] = NoSend

\* C24: in every reachable state every task_id of the registry has an entry
\* in the history, so that the delete handler finds it.
C24_RegistryWithinHistory ==
    \A j \in DOMAIN active_translations : j \in Listed

\* No job is running: no record of the registry and no entry of the history
\* has status "running", and no task is between two events.
NoJobRunning ==
    /\ \A j \in DOMAIN active_translations :
          Get(active_translations[j], "status", None) # "running"
    /\ \A i \in 1..Len(load_history(history_file)) :
          Get(load_history(history_file)[i], "status", None) # "running"

\* A cleanup that was asked to delete files and records and in which no
\* unlink raised and the history write succeeded.
CleansEverything ==
    /\ AnswersCleanup
    /\ response'.request.delete_orphan_files
    /\ response'.request.delete_orphan_records
    /\ response'.cleanup_result.errors = {}
    /\ response'.cleanup_result.warnings = {}
    /\ history_file'.state = "valid"

\* C25: after a cleanup with delete_orphan_files and delete_orphan_records in
\* which nothing failed, and with no job running, a scan of the state it
\* leaves finds no orphan file and no orphan record.
C25_CleanupLeavesNothing ==
    [][(CleansEverything /\ NoJobRunning) =>
          /\ orphan_files(load_history(history_file'), files') = {}
          /\ OrphanRecordList(load_history(history_file'), files') = << >>]_vars

\* Job j is running: its registry record has status "running".
Running(j) ==
    /\ j \in DOMAIN active_translations
    /\ Get(active_translations[j], "status", None) = "running"

\* The step handles the finish event of job j and completes its record.
Finishes(j) ==
    /\ PullsEvent(j)
    /\ Running(j)
    /\ j \in DOMAIN active_translations'
    /\ Get(active_translations'[j], "status", None) = "completed"

\* C26: a cleanup with delete_orphan_files that runs while a job is running
\* removes no file that the finish event of this job then reports as a
\* result path, and the result files the engine wrote exist when the finish
\* event has been handled.
C26_CleanupSparesRunningJobs ==
    [][\A j \in TaskIds :
          /\ (AnswersCleanup /\ response'.request.delete_orphan_files /\ Running(j)) =>
                EngineWrites(written[j]) \cap (files \ files') = {}
          /\ Finishes(j) =>
                ResultPaths(active_translations'[j]) \cap EngineWrites(last'[j]) \subseteq files']_vars

=============================================================================
